---- MODULE Spec2Model ----
(***************************************************************************)
(* DataLens AI: the self-correcting analysis pipeline (app/agent.py and    *)
(* app/nodes/*.py) and the script runner (app/tools/code_executor.py).     *)
(*                                                                         *)
(* Texts are sequences of lexemes.  A lexeme is either one character (the  *)
(* back-tick, the letters of the fence tag "python", blank, newline) or    *)
(* one whole statement of a script ("print(a)", "raise", ...).  The         *)
(* back-tick character is written "bt".  Slicing                           *)
(* and prefix tests of the source count characters; they are applied here  *)
(* only to prefixes made of one-character lexemes, so counting lexemes is  *)
(* counting characters wherever the source slices.                         *)
(***************************************************************************)
EXTENDS Integers, Sequences, FiniteSets, TLC

VARIABLES
    state,        \* AgentState, the dict threaded through the graph nodes
    pc,           \* the node of the graph that runs next
    sys_stdout,   \* the stream object currently installed as sys.stdout
    raised,       \* the exception propagating out of the running call, "" if none
    report_prompt,\* the prompt generate_report handed to call_llm, <<>> before that
    llm_reply,    \* the completion returned by the latest call_llm
    llm_calls,    \* number of call_llm invocations of this request
    debug_calls,  \* number of debug_code invocations of this request
    exec_runs,    \* number of execute_analysis_code invocations of this request
    fault_runs,   \* number of those that left execution_error non-empty
    last_exec,    \* how the latest execute_analysis_code ended: "none" before the
                  \* first, "ok", "fault" (an error text was stored), "exit" (the
                  \* script's exception left the runner)
    stage_runs,   \* how many times analyze_schema, create_analysis_plan and
                  \* generate_code were invoked for this request
    script,       \* runner harness: the script handed to the runner
    calls,        \* number of runner calls made
    stdout_before,\* runner harness: sys.stdout when the latest runner call began
    last,         \* runner harness: outcome of the latest runner call
    pd_seen,      \* whether the pandas module object, shared by every runner call
                  \* of the process, carries the attribute "seen" a script set
    ns_fig,       \* runner harness: the object the latest script that bound fig
                  \* bound it to, "" when no script has bound it
    conc          \* two requests in one process: where each thread stands in
                  \* the graph and inside the runner, its state dict and locals

vars == <<state, pc, sys_stdout, raised, report_prompt, llm_reply, llm_calls, debug_calls,
          exec_runs, fault_runs, last_exec, stage_runs, script, calls,
          stdout_before, last,
          pd_seen, ns_fig, conc>>

llmVars == <<report_prompt, llm_reply, llm_calls>>
countVars == <<debug_calls, exec_runs, fault_runs, last_exec, stage_runs>>
harnessVars == <<script, calls, stdout_before, last, pd_seen, ns_fig, conc>>

-----------------------------------------------------------------------------
(* Bounds of the model *)

\* longest script body the text-generation collaborator returns in the pipeline
MaxBodyLen == 2
\* longest script handed to the runner by the runner harness
MaxScriptLen == 3
\* runner calls made in a row by the runner harness
MaxCalls == 2
MaxSeqScriptLen == 2
MaxConcScriptLen == 1
\* nodes of the graph each request runs in the two-request harness
MaxConcNodes == 1
MaxCleanTokens == 4
\* cap of the counting variable debug_calls; the program stays below it
CountCap == 6

(* Program constants *)

\* should_debug: attempts < 3
MaxDebugAttempts == 3
\* generate_report: execution_result[:8000]
ResultLimit == 8000
\* generate_error_report: error[:500]
ErrorLimit == 500

\* executor.py 50 and 56: how much of the error and of the output the
\* executor node echoes
ErrorEchoLimit == 500
OutputEchoLimit == 1000
\* debugger.py 43 and 65, reporter.py 56: how much of the error, of the
\* repaired script and of the report the debugger and the reporter echo
DebugErrorEchoLimit == 300
FixedCodeEchoLimit == 500
ReportEchoLimit == 1000

-----------------------------------------------------------------------------
(* Text helpers (Python str operations on sequences of lexemes) *)

Min(a, b) == IF a < b THEN a ELSE b

\* s[:n]
Take(s, n) == SubSeq(s, 1, Min(Len(s), n))

\* s[n:]
Drop(s, n) == SubSeq(s, Min(Len(s), n) + 1, Len(s))

\* s.startswith(p)
StartsWith(s, p) == Len(s) >= Len(p) /\ SubSeq(s, 1, Len(p)) = p

\* s.endswith(p)
EndsWith(s, p) == Len(s) >= Len(p) /\ SubSeq(s, Len(s) - Len(p) + 1, Len(s)) = p

Whitespace == {" ", "\n"}

RECURSIVE LStrip(_)
LStrip(s) == IF s # <<>> /\ Head(s) \in Whitespace THEN LStrip(Tail(s)) ELSE s

RECURSIVE RStrip(_)
RStrip(s) ==
    IF s # <<>> /\ s[Len(s)] \in Whitespace THEN RStrip(SubSeq(s, 1, Len(s) - 1)) ELSE s

\* s.strip()
Strip(s) == RStrip(LStrip(s))

Fence == <<"bt", "bt", "bt">>
FencePython == <<"bt", "bt", "bt", "p", "y", "t", "h", "o", "n">>

\* clean_code_output of coder.py
clean_code_output(code) ==
    LET c1 == IF StartsWith(code, FencePython) THEN Drop(code, 9)
              ELSE IF StartsWith(code, Fence) THEN Drop(code, 3)
              ELSE code
        c2 == IF EndsWith(c1, Fence) THEN SubSeq(c1, 1, Len(c1) - 3) ELSE c1
    IN  Strip(c2)

\* mutant: the copy in debugger.py has lost the final strip()
clean_code_output_debugger_no_strip(code) ==
    LET c1 == IF StartsWith(code, FencePython) THEN Drop(code, 9)
              ELSE IF StartsWith(code, Fence) THEN Drop(code, 3)
              ELSE code
    IN  IF EndsWith(c1, Fence) THEN SubSeq(c1, 1, Len(c1) - 3) ELSE c1

\* clean_code_output of debugger.py, a second copy of the function
clean_code_output_debugger(code) ==
    LET c1 == IF StartsWith(code, FencePython) THEN Drop(code, 9)
              ELSE IF StartsWith(code, Fence) THEN Drop(code, 3)
              ELSE code
        c2 == IF EndsWith(c1, Fence) THEN SubSeq(c1, 1, Len(c1) - 3) ELSE c1
    IN  Strip(c2)

-----------------------------------------------------------------------------
(* Scripts and what running them does (Python's exec on the script text) *)

\* statements that write one line to sys.stdout
WriteStmts == {"print(a)", "print(b)"}
\* a statement raising an Exception subclass (NameError, KeyError, ...); the
\* letters of a stray fence tag are undefined names and raise NameError
RaiseStmts == {"raise", "p", "y", "t", "h", "o", "n"}
\* a statement asking the interpreter to exit: raises SystemExit, a
\* BaseException that is not an Exception
ExitStmts == {"exit()"}
\* lexemes that make the whole script unparseable: exec raises SyntaxError
\* before any statement runs
SyntaxErrorLexemes == {"bt"}
\* statements binding the name fig: to a figure (has to_json), to an object
\* without to_json, to an object whose to_json raises
FigStmts == {"fig=Figure", "fig=1", "fig=Bad"}

\* a statement setting an attribute on the module object bound to pd
SetAttrStmt == "pd.seen=1"
\* a statement printing that attribute, 0 when the module does not carry it
GetAttrStmt == "print(getattr(pd,'seen',0))"

\* what the statements write, as the text print() sends to the stream
Written(stmt) == IF stmt = "print(a)" THEN <<"a", "\n">> ELSE <<"b", "\n">>

\* exec(code, exec_namespace): the writes made, the exception raised ("" if
\* none), the binding of fig left in the namespace ("" if unbound) and
\* whether the pandas module carries the attribute afterwards
RECURSIVE RunStmts(_, _, _, _)
RunStmts(stmts, out, fig, seen) ==
    IF stmts = <<>> THEN [out |-> out, exc |-> "", fig |-> fig, seen |-> seen]
    ELSE LET s == Head(stmts) IN
         IF s \in RaiseStmts
         THEN [out |-> out, exc |-> "Exception", fig |-> fig, seen |-> seen]
         ELSE IF s \in ExitStmts
         THEN [out |-> out, exc |-> "SystemExit", fig |-> fig, seen |-> seen]
         ELSE IF s \in WriteStmts THEN RunStmts(Tail(stmts), out \o Written(s), fig, seen)
         ELSE IF s \in FigStmts THEN RunStmts(Tail(stmts), out, s, seen)
         ELSE IF s = SetAttrStmt THEN RunStmts(Tail(stmts), out, fig, TRUE)
         ELSE IF s = GetAttrStmt
         THEN RunStmts(Tail(stmts), out \o <<IF seen THEN "1" ELSE "0", "\n">>, fig, seen)
         ELSE RunStmts(Tail(stmts), out, fig, seen)

\* namespace_fig is the binding of fig in exec_namespace when exec begins,
\* seen the attribute of the shared module at that time
exec(code, namespace_fig, seen) ==
    IF \E i \in 1..Len(code) : code[i] \in SyntaxErrorLexemes
    THEN [out |-> <<>>, exc |-> "SyntaxError", fig |-> namespace_fig, seen |-> seen]
    ELSE RunStmts(code, <<>>, namespace_fig, seen)

\* traceback.format_exc()
format_exc(exc) == <<"Traceback (most recent call last):", exc>>

FigureJson == "{figure}"

-----------------------------------------------------------------------------
(* The script runner, app/tools/code_executor.py *)

\* fig.to_json() of the object bound to fig, reached only when hasattr(fig, "to_json")
to_json_raises(fig) == fig = "fig=Bad"

\* mutant: hasattr is not tested, any object bound to fig is serialized
has_to_json_any(fig) == TRUE

\* hasattr(fig, "to_json")
has_to_json(fig) == fig \in {"fig=Figure", "fig=Bad"}

\* mutant: the figure check follows the try statement and runs after a caught fault too
reaches_figure_check_always(exc) == TRUE

\* the figure check is the statement after exec inside the try block: it is
\* reached only when exec raised nothing
reaches_figure_check(exc) == exc = ""

\* mutant: the stream is restored after the try statement, not in a finally block
restore_stdout_unless_raised(old_stdout, propagates) ==
    IF propagates = "" THEN old_stdout ELSE "StringIO"

\* the finally block of execute_code: sys.stdout = old_stdout, on every way out
restore_stdout(old_stdout, propagates) == old_stdout

\* mutant: exec_namespace is one dict kept across calls
exec_namespace_kept == ns_fig

\* the binding of fig in exec_namespace, a dict built anew by each call from
\* six entries, none of them fig
exec_namespace == ""

\* execute_code(code), entered with stream installed as sys.stdout.
\*   raised     the exception that leaves execute_code ("" when it returns)
\*   output, error, figure_json   the returned triple; figure_json is <<>> for
\*              None and <<json>> for a string
\*   sys_stdout the stream installed when the call is left
\*   real       what the call wrote to the stream installed at entry
\*   ns_fig     the binding of fig in exec_namespace when the call is left
\*   pd_seen    the attribute of the shared pandas module when the call is left
execute_code(code, stream) ==
    LET old_stdout == stream
        r == exec(code, exec_namespace, pd_seen)
        \* sys.stdout is the StringIO while the script runs: its writes land there
        captured_output == r.out
        caught == r.exc \in {"Exception", "SyntaxError"}
        serialize == reaches_figure_check(r.exc) /\ r.fig # "" /\ has_to_json(r.fig)
        error_message ==
            IF caught THEN format_exc(r.exc)
            ELSE IF serialize /\ to_json_raises(r.fig) THEN format_exc("Exception")
            ELSE <<>>
        figure_json ==
            IF serialize /\ ~to_json_raises(r.fig) THEN <<FigureJson>> ELSE <<>>
        propagates == IF r.exc = "" \/ caught THEN "" ELSE r.exc
    IN  [raised |-> propagates,
         output |-> IF propagates = "" THEN captured_output ELSE <<>>,
         error |-> IF propagates = "" THEN error_message ELSE <<>>,
         figure_json |-> IF propagates = "" THEN figure_json ELSE <<>>,
         sys_stdout |-> restore_stdout(old_stdout, propagates),
         real |-> <<>>,
         ns_fig |-> r.fig,
         pd_seen |-> r.seen]

dangerous_patterns ==
    <<"import os", "import subprocess", "import sys", "open(", "__import__", "eval(", "exec(">>

\* pattern in code
Contains(code, pattern) == \E i \in 1..Len(code) : code[i] = pattern

\* the lines printed by the for loop of execute_code_safely, in order
RECURSIVE Warnings(_, _)
Warnings(patterns, code) ==
    IF patterns = <<>> THEN <<>>
    ELSE (IF Contains(code, Head(patterns))
          THEN <<"Warning: Code contains potentially dangerous pattern: ", Head(patterns), "\n">>
          ELSE <<>>) \o Warnings(Tail(patterns), code)

\* mutant: the warnings are printed once the redirection is in place
execute_code_safely_warn_captured(code, stream) ==
    LET res == execute_code(code, stream)
    IN  IF res.raised = ""
        THEN [res EXCEPT !.output = Warnings(dangerous_patterns, code) \o res.output]
        ELSE res

\* mutant: a script with a dangerous pattern is rejected, not run
execute_code_safely_blocks(code, stream) ==
    LET res == execute_code(code, stream)
    IN  IF Warnings(dangerous_patterns, code) # <<>>
        THEN [res EXCEPT !.raised = "", !.output = <<>>, !.error = <<"rejected">>,
                         !.figure_json = <<>>,
                         !.real = Warnings(dangerous_patterns, code)]
        ELSE res

\* execute_code_safely(code): the warnings go to the stream installed at entry,
\* then execute_code runs
execute_code_safely(code, stream) ==
    LET res == execute_code(code, stream)
    IN  [res EXCEPT !.real = Warnings(dangerous_patterns, code) \o res.real]

NoCall == [raised |-> "", output |-> <<>>, error |-> <<>>, figure_json |-> <<>>,
           sys_stdout |-> "", real |-> <<>>, ns_fig |-> "", pd_seen |-> FALSE]

\* no node of the graph has run
NoStageRuns == [schema_analyzer |-> 0, planner |-> 0, coder |-> 0]

-----------------------------------------------------------------------------
(* The pipeline, app/agent.py and app/nodes *)

FilePath == "data.csv"
Question == "question"

\* run_analysis: initial_state
initial_state ==
    [file_path |-> FilePath, user_question |-> Question, schema_info |-> "",
     column_types |-> "{}", sample_rows |-> "", analysis_plan |-> <<>>,
     generated_code |-> <<>>, execution_result |-> <<>>, execution_error |-> <<>>,
     figure_json |-> "", debug_attempts |-> 0, final_report |-> <<>>]

\* the threads serving two requests of one process
Threads == {1, 2}

\* no request is being served: for each thread the line it is at, its state
\* dict, the nodes it may still enter, the locals of its runner call (the
\* number of calls made, the statements left to run, old_stdout, the contents
\* of its StringIO, error_message) and the print calls it has yet to make
NoThreads ==
    [thread |-> [t \in Threads |->
                    [at |-> "idle", st |-> initial_state, left |-> 0, run |-> 0,
                     rest |-> <<>>, old_stdout |-> "", buffer |-> <<>>, error |-> <<>>,
                     prints |-> <<>>]]]

\* mutant: the ceiling test is attempts <= 3
should_debug_off_by_one(st) ==
    IF st.execution_error # <<>> /\ st.debug_attempts <= MaxDebugAttempts
    THEN "debug" ELSE "report"

\* mutant: the fault test is dropped
should_debug_ignores_error(st) ==
    IF st.debug_attempts < MaxDebugAttempts THEN "debug" ELSE "report"

\* should_debug(state)
should_debug(st) ==
    LET has_error == st.execution_error # <<>>
        attempts == st.debug_attempts
    IN  IF has_error /\ attempts < MaxDebugAttempts THEN "debug" ELSE "report"

\* the lexemes of the script bodies the text-generation collaborator returns
PipeLexemes == {"print(a)", "raise", "exit()", "fig=Figure"}

RECURSIVE SeqsUpTo(_, _)
SeqsUpTo(S, n) ==
    IF n = 0 THEN {<<>>}
    ELSE LET shorter == SeqsUpTo(S, n - 1)
         IN  shorter \cup {Append(b, x) : b \in shorter, x \in S}

Bodies == SeqsUpTo(PipeLexemes, MaxBodyLen)

\* completions for a code or repair prompt: the bare script, the script in a
\* python fence, and the fenced script after a leading newline
CodeReplies ==
    Bodies
    \cup {FencePython \o <<"\n">> \o b \o <<"\n">> \o Fence : b \in Bodies}
    \cup {<<"\n">> \o FencePython \o <<"\n">> \o b \o <<"\n">> \o Fence : b \in Bodies \ {<<>>}}

PlanReplies == {<<"1. load", "\n", "2. analyse">>}
ReportReplies == {<<"## Findings">>, <<"## Summary">>}

SchemaInfo == "Dataset Overview: ..."
ColumnTypes == "{customer_id: int64}"
SampleRows == "| customer_id | ..."

\* mutant: the whole output is interpolated
reporter_prompt_untruncated(st) ==
    <<"REPORTER_PROMPT", st.user_question>> \o st.execution_result

\* REPORTER_PROMPT.format(..., execution_result=execution_result[:8000])
reporter_prompt(st) ==
    <<"REPORTER_PROMPT", st.user_question>> \o Take(st.execution_result, ResultLimit)

\* generate_error_report(state): the f-string with its four interpolations
generate_error_report(st) ==
    <<"## Analysis Report ... to answer: ", st.user_question,
      " ... couldn't be automatically resolved after ", ToString(st.debug_attempts),
      " attempts. ### Error Summary">>
        \o Take(st.execution_error, ErrorLimit)
        \o <<"### Recommendations ... ### What Was Attempted">>
        \o st.analysis_plan
        \o <<"--- This report was generated automatically.">>

\* mutant: any fault selects the failure report
error_branch_ignores_output(st) == st.execution_error # <<>>

\* mutant: any empty output selects the failure report
error_branch_ignores_error(st) == st.execution_result = <<>>

\* generate_report: the test that selects the failure report
error_branch(st) == st.execution_error # <<>> /\ st.execution_result = <<>>

\* mutant: the counter is read but not advanced
next_attempts_no_increment(st) == st.debug_attempts

\* debug_code: attempts = state.get("debug_attempts", 0) + 1
next_attempts(st) == st.debug_attempts + 1

\* a node raised: agent.invoke and run_analysis propagate the exception
Abort(exc) == /\ pc' = "aborted"
              /\ raised' = exc

\* analyze_schema(state); pd.read_csv raises on an unreadable file
analyze_schema ==
    /\ pc = "schema_analyzer"
    /\ \/ /\ state' = [state EXCEPT !.schema_info = SchemaInfo,
                                    !.column_types = ColumnTypes,
                                    !.sample_rows = SampleRows]
          /\ pc' = "planner"
          /\ UNCHANGED raised
       \/ /\ Abort("ReadError")
          /\ UNCHANGED state
    /\ stage_runs' = [stage_runs EXCEPT !.schema_analyzer = @ + 1]
    /\ UNCHANGED <<sys_stdout, llmVars, debug_calls, exec_runs, fault_runs, last_exec,
                   harnessVars>>

\* create_analysis_plan(state)
create_analysis_plan ==
    /\ pc = "planner"
    /\ UNCHANGED report_prompt
    /\ llm_calls' = llm_calls + 1
    /\ \/ \E plan \in PlanReplies :
            /\ llm_reply' = plan
            /\ state' = [state EXCEPT !.analysis_plan = plan]
            /\ pc' = "coder"
            /\ UNCHANGED raised
       \/ /\ Abort("LLMError")
          /\ UNCHANGED <<state, llm_reply>>
    /\ stage_runs' = [stage_runs EXCEPT !.planner = @ + 1]
    /\ UNCHANGED <<sys_stdout, debug_calls, exec_runs, fault_runs, last_exec, harnessVars>>

\* generate_code(state)
generate_code ==
    /\ pc = "coder"
    /\ UNCHANGED report_prompt
    /\ llm_calls' = llm_calls + 1
    /\ \/ \E code \in CodeReplies :
            /\ llm_reply' = code
            /\ state' = [state EXCEPT !.generated_code = clean_code_output(code)]
            /\ pc' = "executor"
            /\ UNCHANGED raised
       \/ /\ Abort("LLMError")
          /\ UNCHANGED <<state, llm_reply>>
    /\ stage_runs' = [stage_runs EXCEPT !.coder = @ + 1]
    /\ UNCHANGED <<sys_stdout, debug_calls, exec_runs, fault_runs, last_exec, harnessVars>>

\* mutant: the empty script is passed on as a clean run
empty_code_update_no_fault(st) ==
    [st EXCEPT !.execution_error = <<>>, !.execution_result = <<>>]

\* execute_analysis_code, "if not code": the two fields stored before the
\* early return
empty_code_update(st) ==
    [st EXCEPT !.execution_error = <<"No code to execute">>, !.execution_result = <<>>]

\* mutant: the captured output of the run is not stored
executor_update_keeps_result(st, res) ==
    [st EXCEPT !.execution_error = res.error,
               !.figure_json = IF res.figure_json # <<>> /\ res.figure_json[1] # ""
                               THEN res.figure_json[1] ELSE ""]

\* execute_analysis_code, "Update state": the three fields stored from the
\* runner's triple
executor_update(st, res) ==
    [st EXCEPT !.execution_result = res.output,
               !.execution_error = res.error,
               !.figure_json = IF res.figure_json # <<>> /\ res.figure_json[1] # ""
                               THEN res.figure_json[1] ELSE ""]

\* execute_analysis_code(state), the node wired as "executor"
execute_analysis_code ==
    /\ pc = "executor"
    /\ exec_runs' = exec_runs + 1
    /\ LET code == state.generated_code IN
       IF code = <<>>
       THEN /\ state' = empty_code_update(state)
            /\ pc' = "route"
            /\ fault_runs' = fault_runs + 1
            /\ last_exec' = "fault"
            /\ UNCHANGED <<sys_stdout, raised, calls, pd_seen>>
       ELSE LET res == execute_code_safely(code, sys_stdout) IN
            /\ calls' = calls + 1
            /\ pd_seen' = res.pd_seen
            /\ sys_stdout' = res.sys_stdout
            /\ IF res.raised # ""
               THEN /\ Abort(res.raised)
                    /\ last_exec' = "exit"
                    /\ UNCHANGED <<state, fault_runs>>
               ELSE /\ state' = executor_update(state, res)
                    /\ pc' = "route"
                    /\ fault_runs' = IF res.error # <<>> THEN fault_runs + 1 ELSE fault_runs
                    /\ last_exec' = IF res.error # <<>> THEN "fault" ELSE "ok"
                    /\ UNCHANGED raised
    /\ UNCHANGED <<llmVars, debug_calls, stage_runs, script, stdout_before, last, ns_fig,
                   conc>>

\* the conditional edge after "executor"
route_after_executor ==
    /\ pc = "route"
    /\ pc' = IF should_debug(state) = "debug" THEN "debugger" ELSE "reporter"
    /\ UNCHANGED <<state, sys_stdout, raised, llmVars, countVars, harnessVars>>

\* mutant: the repair also clears the output of the failed run
debugger_update_clears_result(st, fixed) ==
    [st EXCEPT !.generated_code = clean_code_output_debugger(fixed), !.execution_error = <<>>,
               !.execution_result = <<>>]

\* mutant: the error of the failed run is kept for the retry
debugger_update_keeps_error(st, fixed) ==
    [st EXCEPT !.generated_code = clean_code_output_debugger(fixed)]

\* debug_code after call_llm: the cleaned reply replaces the script and the
\* error is cleared for the retry
debugger_update(st, fixed) ==
    [st EXCEPT !.generated_code = clean_code_output_debugger(fixed), !.execution_error = <<>>]

\* mutant: the counter is stored only after call_llm has returned
state_at_llm_failure_late(st0, st1) == st0

\* the dict when call_llm raises inside debug_code: st0 at entry, st1 with the
\* counter stored; the store precedes the call, so the dict is st1
state_at_llm_failure(st0, st1) == st1

\* mutant: the edge from "debugger" leads to "reporter"
after_debugger_reports == "reporter"

\* mutant: the edge from "debugger" leads back to "coder"
after_debugger_recodes == "coder"

\* workflow.add_edge("debugger", "executor")
after_debugger == "executor"

\* debug_code(state); the counter is stored before call_llm is reached
debug_code ==
    /\ pc = "debugger"
    /\ debug_calls < CountCap
    /\ debug_calls' = debug_calls + 1
    /\ LET st1 == [state EXCEPT !.debug_attempts = next_attempts(state)] IN
       /\ UNCHANGED report_prompt
       /\ llm_calls' = llm_calls + 1
       /\ \/ \E fixed \in CodeReplies :
               /\ llm_reply' = fixed
               /\ state' = debugger_update(st1, fixed)
               /\ pc' = after_debugger
               /\ UNCHANGED raised
          \/ /\ Abort("LLMError")
             /\ state' = state_at_llm_failure(state, st1)
             /\ UNCHANGED llm_reply
    /\ UNCHANGED <<sys_stdout, exec_runs, fault_runs, last_exec, stage_runs, harnessVars>>

\* mutant: the edge from "reporter" leads back to "executor"
after_reporter_loops == "executor"

\* workflow.add_edge("reporter", END)
after_reporter == "END"

\* generate_report(state); the edge from "reporter" leads to END
generate_report ==
    /\ pc = "reporter"
    /\ IF error_branch(state)
       THEN /\ state' = [state EXCEPT !.final_report = generate_error_report(state)]
            /\ pc' = after_reporter
            /\ UNCHANGED <<raised, llmVars>>
       ELSE /\ report_prompt' = reporter_prompt(state)
            /\ llm_calls' = llm_calls + 1
            /\ \/ \E report \in ReportReplies :
                    /\ llm_reply' = report
                    /\ state' = [state EXCEPT !.final_report = report]
                    /\ pc' = after_reporter
                    /\ UNCHANGED raised
               \/ /\ Abort("LLMError")
                  /\ UNCHANGED <<state, llm_reply>>
    /\ UNCHANGED <<sys_stdout, countVars, harnessVars>>

\* run_analysis(file_path, question) up to agent.invoke(initial_state)
Init ==
    /\ state = initial_state
    /\ pc = "schema_analyzer"
    /\ sys_stdout = "sys.__stdout__"
    /\ raised = ""
    /\ report_prompt = <<>>
    /\ llm_reply = <<>>
    /\ llm_calls = 0
    /\ debug_calls = 0
    /\ exec_runs = 0
    /\ fault_runs = 0
    /\ last_exec = "none"
    /\ stage_runs = NoStageRuns
    /\ script = <<>>
    /\ calls = 0
    /\ stdout_before = "sys.__stdout__"
    /\ last = NoCall
    /\ pd_seen = FALSE
    /\ ns_fig = ""
    /\ conc = NoThreads

Next ==
    \/ analyze_schema
    \/ create_analysis_plan
    \/ generate_code
    \/ execute_analysis_code
    \/ route_after_executor
    \/ debug_code
    \/ generate_report

Spec == Init /\ [][Next]_vars

\* every node that is entered runs: agent.invoke is one sequential call chain
LiveSpec == Spec /\ WF_vars(Next)

-----------------------------------------------------------------------------
(* The runner called directly, as the tests under __main__ of                *)
(* code_executor.py call it: one script, handed to either entry point       *)

RunnerLexemes ==
    {"print(a)", "print(b)", "raise", "exit()", "fig=Figure", "fig=1", "fig=Bad",
     "import os", "import sys", "bt"}

Scripts == SeqsUpTo(RunnerLexemes, MaxScriptLen)

Streams == {"sys.__stdout__", "host redirect"}

RunnerInit ==
    /\ state = initial_state
    /\ pc = "runner"
    /\ sys_stdout \in Streams
    /\ raised = ""
    /\ report_prompt = <<>>
    /\ llm_reply = <<>>
    /\ llm_calls = 0
    /\ debug_calls = 0
    /\ exec_runs = 0
    /\ fault_runs = 0
    /\ last_exec = "none"
    /\ stage_runs = NoStageRuns
    /\ script \in Scripts
    /\ calls = 0
    /\ stdout_before = sys_stdout
    /\ last = NoCall
    /\ pd_seen = FALSE
    /\ ns_fig = ""
    /\ conc = NoThreads

\* what a runner call leaves behind
Called(res) ==
    /\ calls' = calls + 1
    /\ stdout_before' = sys_stdout
    /\ last' = res
    /\ pd_seen' = res.pd_seen
    /\ ns_fig' = IF res.ns_fig # "" THEN res.ns_fig ELSE ns_fig
    /\ sys_stdout' = res.sys_stdout
    /\ raised' = res.raised
    /\ UNCHANGED <<state, pc, llmVars, countVars, script, conc>>

\* output, error, fig = execute_code(script)
call_execute_code ==
    /\ pc = "runner"
    /\ calls < MaxCalls
    /\ Called(execute_code(script, sys_stdout))

\* output, error, fig = execute_code_safely(script)
call_execute_code_safely ==
    /\ pc = "runner"
    /\ calls < MaxCalls
    /\ Called(execute_code_safely(script, sys_stdout))

RunnerNext ==
    \/ call_execute_code
    \/ call_execute_code_safely

RunnerSpec == RunnerInit /\ [][RunnerNext]_vars

-----------------------------------------------------------------------------
(* The runner called again and again in one process, with one script after  *)
(* another, as the executor node calls it for each repaired script          *)

SeqLexemes == {"print(a)", "raise", "exit()", "fig=Figure", SetAttrStmt, GetAttrStmt}

SeqScripts == SeqsUpTo(SeqLexemes, MaxSeqScriptLen)

SeqInit ==
    /\ state = initial_state
    /\ pc = "runner"
    /\ sys_stdout = "sys.__stdout__"
    /\ raised = ""
    /\ report_prompt = <<>>
    /\ llm_reply = <<>>
    /\ llm_calls = 0
    /\ debug_calls = 0
    /\ exec_runs = 0
    /\ fault_runs = 0
    /\ last_exec = "none"
    /\ stage_runs = NoStageRuns
    /\ script \in SeqScripts
    /\ calls = 0
    /\ stdout_before = sys_stdout
    /\ last = NoCall
    /\ pd_seen = FALSE
    /\ ns_fig = ""
    /\ conc = NoThreads

\* the caller turns to another script; the process and its modules live on
next_script ==
    /\ pc = "runner"
    /\ calls > 0
    /\ \E code \in SeqScripts \ {script} : script' = code
    /\ calls' = 0
    /\ last' = NoCall
    /\ raised' = ""
    /\ UNCHANGED <<state, pc, sys_stdout, llmVars, countVars, stdout_before, pd_seen, ns_fig,
                   conc>>

SeqNext ==
    \/ call_execute_code
    \/ call_execute_code_safely
    \/ next_script

SeqSpec == SeqInit /\ [][SeqNext]_vars

-----------------------------------------------------------------------------
(* The reporter node entered with outputs and tracebacks of any length: a   *)
(* text of n characters is the sequence of its characters, the i-th one     *)
(* written ToString(i) so that every position can be told from the others   *)

Text(n) == [i \in 1..n |-> ToString(i)]

\* lengths below, at and above the two slicing limits of reporter.py
ReportLengths ==
    {0, 1, ErrorLimit - 1, ErrorLimit, ErrorLimit + 1,
     ResultLimit - 1, ResultLimit, ResultLimit + 1}

\* the states in which the conditional edge hands over to the reporter: no
\* error after any number of repairs, or an error after the last repair
ReportInit ==
    /\ \E n \in ReportLengths, m \in ReportLengths, k \in 0..MaxDebugAttempts :
          /\ m > 0 => k = MaxDebugAttempts
          /\ state = [initial_state EXCEPT
                         !.schema_info = SchemaInfo, !.column_types = ColumnTypes,
                         !.sample_rows = SampleRows,
                         !.analysis_plan = <<"1. load", "\n", "2. analyse">>,
                         !.generated_code = <<"print(a)">>,
                         !.execution_result = Text(n),
                         !.execution_error = Text(m),
                         !.debug_attempts = k]
          /\ debug_calls = k
          /\ exec_runs = k + 1
          /\ fault_runs = IF m > 0 THEN k + 1 ELSE k
          /\ last_exec = IF m > 0 THEN "fault" ELSE "ok"
          /\ llm_calls = k + 2
          /\ calls = k + 1
    /\ pc = "reporter"
    /\ sys_stdout = "sys.__stdout__"
    /\ raised = ""
    /\ report_prompt = <<>>
    /\ llm_reply = <<"print(a)">>
    /\ stage_runs = [schema_analyzer |-> 1, planner |-> 1, coder |-> 1]
    /\ script = <<>>
    /\ stdout_before = sys_stdout
    /\ last = NoCall
    /\ pd_seen = FALSE
    /\ ns_fig = ""
    /\ conc = NoThreads

ReportNext == generate_report

ReportSpec == ReportInit /\ [][ReportNext]_vars

-----------------------------------------------------------------------------
(* Two requests served by two threads of one process. Each request walks   *)
(* the graph (planner, coder, executor, debugger, reporter) with its own    *)
(* state dict; sys.stdout is one attribute of the sys module, the same for  *)
(* both. The harness looks at a stretch of time in which each request runs  *)
(* at most MaxConcNodes nodes, having run the nodes before them alone. A    *)
(* thread moves one statement at a time; at names the node or line it       *)
(* executes next, prints the texts of the print calls it has yet to make    *)
(* before it moves on.                                                      *)

\* the k-th StringIO object thread t creates, one for each runner call
StringIO(t, k) == "StringIO " \o ToString(t) \o "." \o ToString(k)

\* the replies of the collaborator to the coder of request t: a script
\* printing a (request 1) or b (request 2), raising, passing (nothing is
\* written), or importing os (nothing is written and execute_code_safely warns)
ConcScripts(t) ==
    SeqsUpTo({IF t = 1 THEN "print(a)" ELSE "print(b)", "raise", "pass", "import os"},
             MaxConcScriptLen)

\* the replies of the collaborator to the planner, the debugger and the
\* reporter of both requests
ConcPlan == <<"1. load">>
ConcRepair == <<"pass">>
ConcReport == <<"## Findings">>

\* the traceback of a raising statement is as long as its message makes it:
\* below the echo limits of the debugger and of the executor, between the
\* two (the executor echoes it whole, the debugger cuts it), or above both
Tracebacks ==
    {format_exc("Exception"),
     format_exc("Exception") \o Text(DebugErrorEchoLimit),
     format_exc("Exception") \o Text(ErrorEchoLimit)}

\* planner.py 44-47: the four print calls after the plan is stored (the
\* pictographs that open some lines are left out of the lexemes)
planner_prints(plan) ==
    << <<"\n", "==================================================", "\n">>,
       <<"ANALYSIS PLAN GENERATED:", "\n">>,
       <<"==================================================", "\n">>,
       plan \o <<"\n">> >>

\* coder.py 46-49: the four print calls after the script is stored
coder_prints(code) ==
    << <<"\n", "==================================================", "\n">>,
       <<"GENERATED CODE:", "\n">>,
       <<"==================================================", "\n">>,
       code \o <<"\n">> >>

\* executor.py 34-36: the three print calls before the runner is called
executor_banner ==
    << <<"\n", "==================================================", "\n">>,
       <<"EXECUTING CODE...", "\n">>,
       <<"==================================================", "\n">> >>

\* code_executor.py 114-116: one print call per dangerous pattern found
RECURSIVE warning_prints(_, _)
warning_prints(patterns, code) ==
    IF patterns = <<>> THEN <<>>
    ELSE (IF Contains(code, Head(patterns))
          THEN << Warnings(<<Head(patterns)>>, code) >>
          ELSE <<>>) \o warning_prints(Tail(patterns), code)

\* executor.py 47-58: the print calls after the runner returned
executor_status(output, error, figure_json) ==
    IF error # <<>>
    THEN << <<"\n", "EXECUTION FAILED:", "\n">>,
            <<"--------------------------------------------------", "\n">>,
            Take(error, ErrorEchoLimit) \o <<"\n">> >>
         \o (IF Len(error) > ErrorEchoLimit
             THEN << <<"... (error truncated)", "\n">> >> ELSE <<>>)
    ELSE << <<"\n", "EXECUTION SUCCESSFUL:", "\n">>,
            <<"--------------------------------------------------", "\n">>,
            (IF Len(output) > OutputEchoLimit THEN Take(output, OutputEchoLimit)
             ELSE output) \o <<"\n">> >>
         \o (IF figure_json # <<>> /\ figure_json[1] # ""
             THEN << <<"\n", "Plotly figure generated!", "\n">> >> ELSE <<>>)

\* debugger.py 35-43: the banner and the error to fix
debugger_head(attempts, error) ==
    << <<"\n", "==================================================", "\n">>,
       <<"DEBUGGING (Attempt ", ToString(attempts), "/3)", "\n">>,
       <<"==================================================", "\n">>,
       <<"\n", "Error to fix:", "\n">> \o Take(error, DebugErrorEchoLimit)
           \o <<"...", "\n">> >>

\* debugger.py 63-67: the print calls after the repaired script is stored
debugger_tail(fixed_code) ==
    << <<"\n", "Code fixed. Sending back to executor...", "\n">>,
       <<"--------------------------------------------------", "\n">>,
       Take(fixed_code, FixedCodeEchoLimit) \o <<"\n">> >>
    \o (IF Len(fixed_code) > FixedCodeEchoLimit
        THEN << <<"... (truncated)", "\n">> >> ELSE <<>>)

\* reporter.py 30-32: the banner
reporter_head ==
    << <<"\n", "==================================================", "\n">>,
       <<"GENERATING REPORT...", "\n">>,
       <<"==================================================", "\n">> >>

\* reporter.py 54-58: the print calls after the report is stored
reporter_tail(report) ==
    << <<"\n", "Report generated successfully!", "\n">>,
       <<"--------------------------------------------------", "\n">>,
       Take(report, ReportEchoLimit) \o <<"\n">> >>
    \o (IF Len(report) > ReportEchoLimit
        THEN << <<"... (truncated for display)", "\n">> >> ELSE <<>>)

\* the conditional edge after the executor
ConcRoute(st) == IF should_debug(st) = "debug" THEN "debugger" ELSE "reporter"

\* the state dict after the executor node ran alone; tb is the traceback if
\* the script raised
ran_alone(st, tb) ==
    IF st.generated_code = <<>> THEN empty_code_update(st)
    ELSE LET res == execute_code_safely(st.generated_code, "sys.__stdout__")
         IN  executor_update(st, [res EXCEPT !.error = IF @ # <<>> THEN tb ELSE @])

\* where a request can stand, and with which state dict, after it ran its
\* first nodes alone: before the planner (the schema node has stored its
\* three fields and printed nothing), the coder, the executor, or the node
\* the conditional edge then selects
ConcStarts(t) ==
    LET analyzed == [initial_state EXCEPT !.schema_info = SchemaInfo,
                                          !.column_types = ColumnTypes,
                                          !.sample_rows = SampleRows]
        planned == [analyzed EXCEPT !.analysis_plan = ConcPlan]
        coded(reply) == [planned EXCEPT !.generated_code = clean_code_output(reply)]
    IN  {[at |-> "planner", st |-> analyzed], [at |-> "coder", st |-> planned]}
        \cup {[at |-> "executor", st |-> coded(c)] : c \in ConcScripts(t)}
        \cup {[at |-> ConcRoute(ran_alone(coded(c), tb)), st |-> ran_alone(coded(c), tb)] :
                  c \in ConcScripts(t), tb \in Tracebacks}

\* each request is about to enter a node of the graph
ConcInit ==
    /\ state = initial_state
    /\ pc = "threads"
    /\ sys_stdout = "sys.__stdout__"
    /\ raised = ""
    /\ report_prompt = <<>>
    /\ llm_reply = <<>>
    /\ llm_calls = 0
    /\ debug_calls = 0
    /\ exec_runs = 0
    /\ fault_runs = 0
    /\ last_exec = "none"
    /\ stage_runs = NoStageRuns
    /\ script = <<>>
    /\ calls = 0
    /\ stdout_before = sys_stdout
    /\ last = NoCall
    /\ pd_seen = FALSE
    /\ ns_fig = ""
    /\ \E s1 \in ConcStarts(1), s2 \in ConcStarts(2) :
          conc = [thread |-> [t \in Threads |->
                                [NoThreads.thread[t] EXCEPT
                                    !.at = IF t = 1 THEN s1.at ELSE s2.at,
                                    !.st = IF t = 1 THEN s1.st ELSE s2.st,
                                    !.left = MaxConcNodes]]]

ConcUnchanged ==
    UNCHANGED <<state, pc, raised, llmVars, countVars, script, calls, stdout_before, last,
                pd_seen, ns_fig>>

\* thread t's StringIO can still be read: it was created at line 42 and
\* getvalue (line 77) has not been called
Capturing(c, t) == c.thread[t].at \in {"60", "74", "77"}

\* print() writes to whatever object sys.stdout is at that moment. What is
\* written to a StringIO that will be read reaches its buffer; what is written
\* to the real stream, or to a StringIO after its getvalue, is read by no
\* request
WriteTo(c, stream, text) ==
    IF \E t \in Threads : stream = StringIO(t, c.thread[t].run) /\ Capturing(c, t)
    THEN LET t == CHOOSE u \in Threads :
                      stream = StringIO(u, c.thread[u].run) /\ Capturing(c, u)
         IN  [c EXCEPT !.thread[t].buffer = @ \o text]
    ELSE c

\* the node returned and the edge leads to node next, which the thread enters
\* if it has nodes left in this stretch of time
edge(t, next) ==
    IF next = "done" \/ conc.thread[t].left > 0 THEN next ELSE "paused"

\* one print call of thread t: the first pending text goes to the current
\* sys.stdout; after the last one the thread goes on at line after
print_call(t, after) ==
    /\ pc = "threads"
    /\ conc.thread[t].prints # <<>>
    /\ conc' = [WriteTo(conc, sys_stdout, Head(conc.thread[t].prints))
                   EXCEPT !.thread[t].prints = Tail(@),
                          !.thread[t].at = IF Tail(conc.thread[t].prints) = <<>>
                                           THEN after ELSE @]
    /\ UNCHANGED sys_stdout
    /\ ConcUnchanged

\* the nodes of the graph that print
Nodes == {"planner", "coder", "executor", "debugger", "reporter"}

\* a step of thread t that touches nothing but its own state dict; the first
\* step of a node uses up one of the nodes the thread may enter
local_step(t, st, prints, at) ==
    /\ pc = "threads"
    /\ conc' = [conc EXCEPT !.thread[t].st = st, !.thread[t].prints = prints,
                            !.thread[t].at = at,
                            !.thread[t].left =
                                IF conc.thread[t].at \in Nodes THEN @ - 1 ELSE @]
    /\ UNCHANGED sys_stdout
    /\ ConcUnchanged

\* planner.py 39-42: call_llm returns and the plan is stored
plan_stored(t) ==
    /\ conc.thread[t].at = "planner"
    /\ local_step(t, [conc.thread[t].st EXCEPT !.analysis_plan = ConcPlan],
                  planner_prints(ConcPlan), "planner.44")

\* planner.py 44-47, one print call; the edge leads to the coder
print_plan(t) ==
    /\ conc.thread[t].at = "planner.44"
    /\ print_call(t, edge(t, "coder"))

\* coder.py 38-44: call_llm returns, the reply is cleaned and stored
code_stored(t) ==
    /\ conc.thread[t].at = "coder"
    /\ \E reply \in ConcScripts(t) :
          LET code == clean_code_output(reply) IN
          local_step(t, [conc.thread[t].st EXCEPT !.generated_code = code],
                     coder_prints(code), "coder.46")

\* coder.py 46-49, one print call; the edge leads to the executor
print_code(t) ==
    /\ conc.thread[t].at = "coder.46"
    /\ print_call(t, edge(t, "executor"))

\* executor.py 27-32: without a script the node stores its message and
\* returns; with one it goes on to the banner
executor_entry(t) ==
    /\ conc.thread[t].at = "executor"
    /\ LET st == conc.thread[t].st IN
       IF st.generated_code = <<>>
       THEN local_step(t, empty_code_update(st), <<>>,
                       IF conc.thread[t].left > 1 THEN ConcRoute(empty_code_update(st))
                       ELSE "paused")
       ELSE local_step(t, st, executor_banner, "executor.34")

\* executor.py 34-36, one print call; line 39 then calls execute_code_safely,
\* whose loop prints if it finds a pattern and which calls execute_code
print_banner(t) ==
    /\ pc = "threads" /\ conc.thread[t].at = "executor.34"
    /\ LET warnings == warning_prints(dangerous_patterns, conc.thread[t].st.generated_code)
           last_one == Tail(conc.thread[t].prints) = <<>>
       IN  /\ conc.thread[t].prints # <<>>
           /\ conc' = [WriteTo(conc, sys_stdout, Head(conc.thread[t].prints))
                          EXCEPT !.thread[t].prints =
                                     IF last_one THEN warnings ELSE Tail(@),
                                 !.thread[t].at =
                                     IF ~last_one THEN @
                                     ELSE IF warnings = <<>> THEN "41" ELSE "114"]
    /\ UNCHANGED sys_stdout
    /\ ConcUnchanged

\* code_executor.py 114-116, one print call of the loop; line 118 follows
print_warning(t) ==
    /\ conc.thread[t].at = "114"
    /\ print_call(t, "41")

\* line 41: old_stdout = sys.stdout
save_stdout(t) ==
    /\ pc = "threads" /\ conc.thread[t].at = "41"
    /\ conc' = [conc EXCEPT !.thread[t].old_stdout = sys_stdout, !.thread[t].at = "42"]
    /\ UNCHANGED sys_stdout
    /\ ConcUnchanged

\* line 42: sys.stdout = captured_output = io.StringIO(), a new object; lines
\* 45-56 set the locals of the call
redirect_stdout(t) ==
    /\ pc = "threads" /\ conc.thread[t].at = "42"
    /\ sys_stdout' = StringIO(t, conc.thread[t].run + 1)
    /\ conc' = [conc EXCEPT !.thread[t].run = @ + 1,
                            !.thread[t].buffer = <<>>,
                            !.thread[t].error = <<>>,
                            !.thread[t].rest = conc.thread[t].st.generated_code,
                            !.thread[t].at = "60"]
    /\ ConcUnchanged

\* line 60: exec(code, exec_namespace), one statement of the script
exec_statement(t) ==
    /\ pc = "threads" /\ conc.thread[t].at = "60" /\ conc.thread[t].rest # <<>>
    /\ LET s == Head(conc.thread[t].rest) IN
       IF s \in WriteStmts
       THEN conc' = [WriteTo(conc, sys_stdout, Written(s)) EXCEPT !.thread[t].rest = Tail(@)]
       ELSE IF s \in RaiseStmts
       THEN \* lines 68-70: the exception is caught, the traceback kept
            \E tb \in Tracebacks :
                conc' = [conc EXCEPT !.thread[t].error = tb, !.thread[t].at = "74"]
       ELSE \* a statement that writes nothing and raises nothing
            conc' = [conc EXCEPT !.thread[t].rest = Tail(@)]
    /\ UNCHANGED sys_stdout
    /\ ConcUnchanged

\* the script ran to its end; it binds no fig, lines 63-66 store nothing
exec_returns(t) ==
    /\ pc = "threads" /\ conc.thread[t].at = "60" /\ conc.thread[t].rest = <<>>
    /\ conc' = [conc EXCEPT !.thread[t].at = "74"]
    /\ UNCHANGED sys_stdout
    /\ ConcUnchanged

\* line 74, the finally block: sys.stdout = old_stdout
finally_restore(t) ==
    /\ pc = "threads" /\ conc.thread[t].at = "74"
    /\ sys_stdout' = restore_stdout(conc.thread[t].old_stdout, "")
    /\ conc' = [conc EXCEPT !.thread[t].at = "77"]
    /\ ConcUnchanged

\* lines 77-79: output = captured_output.getvalue(); return; the executor
\* node stores the triple (executor.py 42-44) and goes on to its status lines
return_triple(t) ==
    /\ pc = "threads" /\ conc.thread[t].at = "77"
    /\ LET res == [output |-> conc.thread[t].buffer, error |-> conc.thread[t].error,
                   figure_json |-> <<>>]
       IN  conc' = [conc EXCEPT !.thread[t].st = executor_update(@, res),
                                !.thread[t].buffer = <<>>,
                                !.thread[t].prints =
                                    executor_status(res.output, res.error, res.figure_json),
                                !.thread[t].at = "executor.47"]
    /\ UNCHANGED sys_stdout
    /\ ConcUnchanged

\* executor.py 47-58, one print call; the node returns after the last and the
\* conditional edge is taken
print_status(t) ==
    /\ conc.thread[t].at = "executor.47"
    /\ print_call(t, edge(t, ConcRoute(conc.thread[t].st)))

\* debugger.py 32-33: the counter is advanced and stored
debugger_entry(t) ==
    /\ conc.thread[t].at = "debugger"
    /\ LET st == [conc.thread[t].st EXCEPT
                     !.debug_attempts = next_attempts(conc.thread[t].st)] IN
       local_step(t, st, debugger_head(st.debug_attempts, st.execution_error),
                  "debugger.35")

\* debugger.py 35-43, one print call; call_llm follows
print_debugging(t) ==
    /\ conc.thread[t].at = "debugger.35"
    /\ print_call(t, "debugger.52")

\* debugger.py 52-61: call_llm returns, the repaired script is cleaned and
\* stored, the error cleared
repair_stored(t) ==
    /\ conc.thread[t].at = "debugger.52"
    /\ LET st == debugger_update(conc.thread[t].st, ConcRepair) IN
       local_step(t, st, debugger_tail(st.generated_code), "debugger.63")

\* debugger.py 63-67, one print call; the edge leads back to the executor
print_fixed(t) ==
    /\ conc.thread[t].at = "debugger.63"
    /\ print_call(t, edge(t, after_debugger))

\* reporter.py 30-32: the node is entered
reporter_entry(t) ==
    /\ conc.thread[t].at = "reporter"
    /\ local_step(t, conc.thread[t].st, reporter_head, "reporter.30")

\* reporter.py 30-32, one print call
print_reporting(t) ==
    /\ conc.thread[t].at = "reporter.30"
    /\ print_call(t, "reporter.39")

\* reporter.py 35-52: the failure report is stored and the node returns, or
\* call_llm returns and its reply is stored
report_stored(t) ==
    /\ conc.thread[t].at = "reporter.39"
    /\ LET st == conc.thread[t].st IN
       IF error_branch(st)
       THEN local_step(t, [st EXCEPT !.final_report = generate_error_report(st)],
                       <<>>, "done")
       ELSE local_step(t, [st EXCEPT !.final_report = ConcReport],
                       reporter_tail(ConcReport), "reporter.54")

\* reporter.py 54-58, one print call; the edge leads to END
print_report(t) ==
    /\ conc.thread[t].at = "reporter.54"
    /\ print_call(t, "done")

ConcNext ==
    \E t \in Threads :
        \/ plan_stored(t)
        \/ print_plan(t)
        \/ code_stored(t)
        \/ print_code(t)
        \/ executor_entry(t)
        \/ print_banner(t)
        \/ print_warning(t)
        \/ save_stdout(t)
        \/ redirect_stdout(t)
        \/ exec_statement(t)
        \/ exec_returns(t)
        \/ finally_restore(t)
        \/ return_triple(t)
        \/ print_status(t)
        \/ debugger_entry(t)
        \/ print_debugging(t)
        \/ repair_stored(t)
        \/ print_fixed(t)
        \/ reporter_entry(t)
        \/ print_reporting(t)
        \/ report_stored(t)
        \/ print_report(t)

ConcSpec == ConcInit /\ [][ConcNext]_vars

-----------------------------------------------------------------------------
(* clean_code_output applied to responses of any shape: llm_reply is the    *)
(* response, generated_code the text the function returned                  *)

\* the pieces responses are put together from
CleanTokens == {Fence, FencePython, <<"bt">>, <<"\n">>, <<"print(a)">>}

RECURSIVE ConcatsUpTo(_, _)
ConcatsUpTo(T, n) ==
    IF n = 0 THEN {<<>>}
    ELSE LET shorter == ConcatsUpTo(T, n - 1)
         IN  shorter \cup {a \o t : a \in shorter, t \in T}

Responses == ConcatsUpTo(CleanTokens, MaxCleanTokens)

CleanInit ==
    /\ state = initial_state
    /\ pc = "clean"
    /\ sys_stdout = "sys.__stdout__"
    /\ raised = ""
    /\ report_prompt = <<>>
    /\ llm_reply \in Responses
    /\ llm_calls = 0
    /\ debug_calls = 0
    /\ exec_runs = 0
    /\ fault_runs = 0
    /\ last_exec = "none"
    /\ stage_runs = NoStageRuns
    /\ script = <<>>
    /\ calls = 0
    /\ stdout_before = sys_stdout
    /\ last = NoCall
    /\ pd_seen = FALSE
    /\ ns_fig = ""
    /\ conc = NoThreads

CleanUnchanged ==
    UNCHANGED <<sys_stdout, raised, llmVars, countVars, harnessVars>>

\* coder.py: code = clean_code_output(code)
clean_in_coder ==
    /\ pc = "clean"
    /\ state' = [state EXCEPT !.generated_code = clean_code_output(llm_reply)]
    /\ pc' = "cleaned"
    /\ CleanUnchanged

\* debugger.py: fixed_code = clean_code_output(fixed_code)
clean_in_debugger ==
    /\ pc = "clean"
    /\ state' = [state EXCEPT !.generated_code = clean_code_output_debugger(llm_reply)]
    /\ pc' = "cleaned"
    /\ CleanUnchanged

\* the function applied to the text it returned
clean_again ==
    /\ pc = "cleaned"
    /\ state' = [state EXCEPT !.generated_code = clean_code_output(state.generated_code)]
    /\ pc' = "cleaned again"
    /\ CleanUnchanged

CleanNext ==
    \/ clean_in_coder
    \/ clean_in_debugger
    \/ clean_again

CleanSpec == CleanInit /\ [][CleanNext]_vars

-----------------------------------------------------------------------------
(* What a script does, read off its text: the reference the runner's       *)
(* results are compared with                                               *)

\* the text written by the write statements of stmts, in order
RECURSIVE WritesOf(_)
WritesOf(stmts) ==
    IF stmts = <<>> THEN <<>>
    ELSE (IF Head(stmts) = "print(a)" THEN <<"a", "\n">>
          ELSE IF Head(stmts) = "print(b)" THEN <<"b", "\n">>
          ELSE <<>>) \o WritesOf(Tail(stmts))

Unparseable(stmts) == \E i \in 1..Len(stmts) : stmts[i] = "bt"

Stops(stmt) == stmt \in {"raise", "exit()", "p", "y", "t", "h", "o", "n"}

\* position of the first statement that raises, 0 when none does
FaultPos(stmts) ==
    IF \E i \in 1..Len(stmts) : Stops(stmts[i])
    THEN CHOOSE i \in 1..Len(stmts) :
            Stops(stmts[i]) /\ \A j \in 1..(i - 1) : ~Stops(stmts[j])
    ELSE 0

\* the script runs to its end and leaves fig bound to an object whose to_json raises
SerializationFails(stmts) ==
    /\ ~Unparseable(stmts)
    /\ FaultPos(stmts) = 0
    /\ \E i \in 1..Len(stmts) :
          /\ stmts[i] = "fig=Bad"
          /\ \A j \in (i + 1)..Len(stmts) : stmts[j] \notin {"fig=Figure", "fig=1", "fig=Bad"}

\* a fault is raised while the script is parsed, run, or its chart serialized
Faults(stmts) == Unparseable(stmts) \/ FaultPos(stmts) > 0 \/ SerializationFails(stmts)

\* the statements that run: all of them, those before the first one that
\* raises, none when the script does not parse
Executed(stmts) ==
    IF Unparseable(stmts) THEN <<>>
    ELSE IF FaultPos(stmts) > 0 THEN SubSeq(stmts, 1, FaultPos(stmts) - 1)
    ELSE stmts

\* the binding of fig the statements leave, "" when they bind none
RECURSIVE LastFig(_)
LastFig(stmts) ==
    IF stmts = <<>> THEN ""
    ELSE IF stmts[Len(stmts)] \in {"fig=Figure", "fig=1", "fig=Bad"} THEN stmts[Len(stmts)]
    ELSE LastFig(SubSeq(stmts, 1, Len(stmts) - 1))

\* the binding of fig in the namespace when the script stops
FigLeft(stmts) == LastFig(Executed(stmts))

\* the text the script writes before its fault point
WritesBefore(stmts) ==
    IF Unparseable(stmts) THEN <<>>
    ELSE IF FaultPos(stmts) > 0 THEN WritesOf(SubSeq(stmts, 1, FaultPos(stmts) - 1))
    ELSE WritesOf(stmts)

-----------------------------------------------------------------------------
(* Properties *)

\* C1: for one request, whatever the scripts do, debug_code is invoked at
\* most 3 times, debug_attempts is at most 3, and debug_attempts never decreases.
C1_RepairBounded ==
    /\ [](debug_calls <= 3 /\ state.debug_attempts <= 3)
    /\ [][state'.debug_attempts >= state.debug_attempts]_vars

\* the request ended after three repairs with the last repaired script faulting too
C1_Witness == pc = "END" /\ debug_calls = 3 /\ fault_runs = 4

\* C2: every execution that returns is followed by the routing decision, and
\* the decision is Repair exactly when execution_error is non-empty and
\* debug_attempts < 3, and Reporting otherwise.
C2_RoutingRule ==
    [][/\ (pc = "executor" => pc' \in {"route", "aborted"})
       /\ (pc = "route" =>
             pc' = IF state.execution_error # <<>> /\ state.debug_attempts < 3
                   THEN "debugger" ELSE "reporter")]_vars

\* the routing after a re-execution chose Repair again
C2_Witness == pc = "debugger" /\ state.debug_attempts = 2 /\ exec_runs = 3

\* C3: every request whose script runs and collaborator calls all return
\* eventually reaches END with final_report written; a request either aborts or
\* ends, it never loops between execution and repair forever.
C3_Terminates == <>(pc = "aborted" \/ (pc = "END" /\ state.final_report # <<>>))

\* a request that went through the whole repair loop ended with a report
C3_Witness == pc = "END" /\ exec_runs = 4 /\ state.final_report # <<>>

\* C4 as stated: when the initial script and all 3 repaired scripts fault, the
\* final state has debug_attempts = 3, a non-empty execution_error, and the
\* failure report listing 3 attempts, whatever the scripts wrote.
C4_Original ==
    (pc = "END" /\ exec_runs = 4 /\ fault_runs = 4) =>
        /\ state.debug_attempts = 3
        /\ state.execution_error # <<>>
        /\ state.final_report = generate_error_report(state)
        /\ state.final_report[4] = "3"

\* C4 amended: in every final state reached after the initial script and all 3
\* repaired scripts faulted, debug_attempts = 3 and execution_error is
\* non-empty; the report is the failure report listing 3 attempts when the last
\* script wrote nothing before faulting, and the collaborator's narrative when
\* it wrote something.
C4_ExhaustedReport ==
    (pc = "END" /\ exec_runs = 4 /\ fault_runs = 4) =>
        /\ state.debug_attempts = 3
        /\ state.execution_error # <<>>
        /\ IF state.execution_result = <<>>
           THEN /\ state.final_report = generate_error_report(state)
                /\ state.final_report[4] = "3"
           ELSE /\ state.final_report \in ReportReplies
                /\ state.final_report = llm_reply

\* four faulting scripts, the last silent: the failure report was written
C4_Witness ==
    /\ pc = "END" /\ exec_runs = 4 /\ fault_runs = 4
    /\ state.execution_result = <<>>
    /\ state.final_report = generate_error_report(state)

\* C5: the reporter writes the failure report, calling the collaborator not at
\* all, exactly when execution_error is non-empty and execution_result is
\* empty; otherwise it calls the collaborator exactly once and stores the
\* completion as final_report (or the call fails and nothing is stored).
C5_ReporterBranch ==
    [][pc = "reporter" =>
         IF state.execution_error # <<>> /\ state.execution_result = <<>>
         THEN /\ llm_calls' = llm_calls
              /\ pc' = "END"
              /\ state'.final_report = generate_error_report(state)
         ELSE /\ llm_calls' = llm_calls + 1
              /\ report_prompt' = reporter_prompt(state)
              /\ \/ /\ pc' = "END"
                    /\ llm_reply' \in ReportReplies
                    /\ state'.final_report = llm_reply'
                    /\ state'.final_report # generate_error_report(state)
                 \/ /\ pc' = "aborted"
                    /\ state'.final_report = state.final_report]_vars

\* a fault with partial output was narrated by the collaborator
C5_Witness ==
    /\ pc = "END"
    /\ state.execution_error # <<>>
    /\ state.execution_result # <<>>
    /\ state.final_report \in ReportReplies

\* C6 as stated: a request ends without a final_report only if a collaborator
\* call failed, whatever the scripts do.
C6_AbortOnlyByCollaborator ==
    pc = "aborted" => raised \in {"LLMError", "ReadError"}

\* C7 as stated: the runner catches every fault raised while a script runs,
\* returns the triple with a non-empty fault text, and lets nothing propagate.
C7_EveryFaultCaught ==
    (calls > 0 /\ Faults(script)) => (last.raised = "" /\ last.error # <<>>)

\* C8: after every runner call, returning or not, sys.stdout is the stream that
\* was installed before the call.
C8_StdoutRestored ==
    calls > 0 => (sys_stdout = stdout_before /\ sys_stdout \in Streams)

\* a call left by a propagating exception restored the stream
C8_Witness == calls > 0 /\ last.raised = "SystemExit" /\ sys_stdout = stdout_before

\* C9: for a script that runs without a fault the runner returns an empty
\* fault text and exactly the script's writes, in order; the warnings of
\* execute_code_safely are not in the captured output and no write of the
\* script reaches the stream installed at entry.
C9_CaptureOnSuccess ==
    (calls > 0 /\ ~Faults(script)) =>
        /\ last.raised = ""
        /\ last.error = <<>>
        /\ last.output = WritesOf(script)
        /\ \A i \in 1..Len(last.real) : last.real[i] \notin {"a", "b"}

\* a script that writes and matches a dangerous pattern ran through execute_code_safely
C9_Witness ==
    /\ calls > 0 /\ ~Faults(script)
    /\ Contains(script, "import os") /\ Contains(script, "print(b)")
    /\ last.real # <<>>
    /\ last.output = <<"b", "\n">>

\* C10 as stated: for every script that raises a fault the runner returns a
\* non-empty fault text and exactly the writes made before the fault point.
C10_CaptureOnFault ==
    (calls > 0 /\ Faults(script)) =>
        /\ last.raised = ""
        /\ last.error # <<>>
        /\ last.output = WritesBefore(script)

\* C11 as stated: a script that binds a charting object to fig produces an
\* artifact, and a script that does not produces none, whether the run
\* succeeds or fails.
C11_Original ==
    (calls > 0 /\ last.raised = "") =>
        (last.figure_json # <<>> <=> FigLeft(script) = "fig=Figure")

\* C11 amended: a script that leaves fig bound to a charting object and runs
\* to its end without a fault produces an artifact; a script that does not
\* bind fig produces none, whether it succeeds or fails; a script that binds
\* fig to a charting object and then raises a fault produces none.
C11_ArtifactNeedsSuccess ==
    calls > 0 =>
        /\ (FigLeft(script) = "fig=Figure" /\ ~Faults(script)) => last.figure_json = <<FigureJson>>
        /\ FigLeft(script) = "" => last.figure_json = <<>>
        /\ (FigLeft(script) = "fig=Figure" /\ Faults(script)) => last.figure_json = <<>>

\* a script bound a figure, then raised: fault text returned, no artifact
C11_Witness ==
    /\ calls > 0 /\ script = <<"fig=Figure", "raise">>
    /\ last.error # <<>> /\ last.figure_json = <<>>

\* C12: the runner returns an artifact exactly when the script ran to its end
\* without a fault (none while parsing, running or serializing) and left fig
\* bound to an object with to_json; a faulting script yields none; a script
\* that ends with fig unbound or bound to an object without to_json yields
\* none and an empty fault text.
C12_ArtifactRule ==
    calls > 0 =>
        /\ last.figure_json # <<>> <=>
              (~Faults(script) /\ FigLeft(script) \in {"fig=Figure", "fig=Bad"})
        /\ Faults(script) => last.figure_json = <<>>
        /\ (~Faults(script) /\ FigLeft(script) \in {"", "fig=1"}) =>
              (last.raised = "" /\ last.figure_json = <<>> /\ last.error = <<>>)

\* a script that leaves fig bound to an object without to_json ran cleanly
C12_Witness ==
    /\ calls > 0 /\ ~Faults(script) /\ FigLeft(script) = "fig=1"
    /\ last.figure_json = <<>> /\ last.error = <<>>

\* the state between a repair that returned and the end of the execution that
\* follows it: the executor is about to run, or its run left the runner with
\* an exception after a repair
RetryPending ==
    \/ pc = "executor" /\ debug_calls > 0
    \/ pc = "aborted" /\ raised = "SystemExit" /\ debug_calls > 0

\* C13 as stated: in every state after the first execution, the one between a
\* repair and the re-execution included, execution_error is non-empty exactly
\* when the latest execution attempt that returned had raised a fault.
C13_Original ==
    last_exec \in {"ok", "fault"} =>
        (state.execution_error # <<>> <=> last_exec = "fault")

\* C13 amended: after an execution that returned, execution_error is non-empty
\* exactly when that execution stored a fault, except between a repair that
\* returned and the end of the next execution, where it is empty; an execution
\* whose script's exception left the runner stores nothing, so the error is
\* empty then as well.
C13_ErrorTracksLatestRun ==
    /\ last_exec = "ok" => state.execution_error = <<>>
    /\ (last_exec = "fault" /\ ~RetryPending) => state.execution_error # <<>>
    /\ (last_exec = "fault" /\ RetryPending) => state.execution_error = <<>>
    /\ last_exec = "exit" => state.execution_error = <<>>

\* a repair aborted after a faulting run: the error of that run is still there
C13_Witness ==
    /\ pc = "aborted" /\ raised = "LLMError" /\ debug_calls > 0
    /\ last_exec = "fault" /\ state.execution_error # <<>>

\* execution_result and execution_error are what running generated_code gives
Produced(st) ==
    IF st.generated_code = <<>>
    THEN st.execution_result = <<>> /\ st.execution_error = <<"No code to execute">>
    ELSE /\ st.execution_result = WritesBefore(st.generated_code)
         /\ st.execution_error # <<>> <=> Faults(st.generated_code)

\* C14 as stated: in every state after an execution returned, generated_code
\* is the script whose run produced execution_result and execution_error.
C14_Original ==
    last_exec \in {"ok", "fault"} => Produced(state)

\* C14 amended: generated_code is the script whose run produced
\* execution_result and execution_error in every state after an execution
\* returned, except between a repair that returned and the end of the next
\* execution; there generated_code is the repaired script, execution_error is
\* empty and execution_result is still the output of the previous script.
C14_ScriptMatchesOutcome ==
    /\ (last_exec \in {"ok", "fault"} /\ ~RetryPending) => Produced(state)
    /\ (last_exec = "fault" /\ RetryPending) =>
          /\ state.execution_error = <<>>
          /\ \E body \in Bodies : state.execution_result = WritesBefore(body)

\* a repaired script ran and printed: the output stored is its own
C14_Witness ==
    /\ pc = "route" /\ debug_calls = 1
    /\ state.generated_code = <<"print(a)">>
    /\ state.execution_result = <<"a", "\n">> /\ state.execution_error = <<>>

\* C15: final_report is written at most once and only by the reporter node;
\* the reporter is left for the end of the run and no node runs after it, so
\* no field of the state changes once the report is written.
C15_ReportWrittenOnce ==
    [][ /\ state'.final_report # state.final_report =>
              (pc = "reporter" /\ state.final_report = <<>> /\ pc' = "END")
        /\ pc = "reporter" => pc' \in {"END", "aborted"}
        /\ pc \in {"END", "aborted"} => (pc' = pc /\ state' = state)
        /\ state.final_report # <<>> => state' = state
      ]_vars

\* the run ended with its report written
C15_Witness == pc = "END" /\ state.final_report # <<>>

\* C16: with an empty generated_code the executor node does not call the
\* runner, stores a non-empty error and an empty result, leaves debug_attempts
\* alone, and the conditional edge routes that state to the debugger while
\* debug_attempts < 3 and to the reporter otherwise.
C16_EmptyScript ==
    [][ /\ (pc = "executor" /\ state.generated_code = <<>>) =>
              /\ calls' = calls /\ sys_stdout' = sys_stdout
              /\ state'.execution_error # <<>>
              /\ state'.execution_result = <<>>
              /\ state'.debug_attempts = state.debug_attempts
              /\ pc' = "route"
        /\ (pc = "route" /\ state.generated_code = <<>>) =>
              pc' = IF state.debug_attempts < MaxDebugAttempts
                    THEN "debugger" ELSE "reporter"
      ]_vars

\* the third repair returned an empty script, which went to the reporter
C16_Witness ==
    /\ pc = "reporter" /\ state.generated_code = <<>>
    /\ state.execution_error = <<"No code to execute">>
    /\ state.debug_attempts = MaxDebugAttempts /\ calls < exec_runs

\* the run reached the reporter or went past it
Reported == pc \in {"reporter", "END"} \/ (pc = "aborted" /\ report_prompt # <<>>)

\* C17: when a run with at least one repair reaches the reporter with an empty
\* execution_error, every execution but the last stored a fault and was
\* followed by one repair, debug_attempts is the number k of repairs with
\* 1 <= k <= 3, generated_code is the script that ran cleanly and
\* execution_result is what that script wrote.
C17_FirstCleanRepairEnds ==
    (Reported /\ debug_calls >= 1 /\ state.execution_error = <<>>) =>
        /\ state.debug_attempts = debug_calls
        /\ debug_calls \in 1..MaxDebugAttempts
        /\ fault_runs = debug_calls
        /\ exec_runs = debug_calls + 1
        /\ last_exec = "ok"
        /\ state.generated_code # <<>>
        /\ ~Faults(state.generated_code)
        /\ state.execution_result = WritesOf(state.generated_code)

\* one repair turned a faulting script into one that prints
C17_Witness ==
    /\ pc = "END" /\ debug_calls = 1 /\ state.debug_attempts = 1
    /\ state.execution_error = <<>> /\ state.execution_result # <<>>

\* C20: debug_attempts starts at 0, only debug_code changes it, each
\* debug_code adds exactly 1, and it equals the number of debug_code
\* invocations started so far.
C20_AttemptsCountRepairs ==
    /\ state.debug_attempts = 0
    /\ [](state.debug_attempts = debug_calls)
    /\ [][ /\ state'.debug_attempts # state.debug_attempts => pc = "debugger"
           /\ pc = "debugger" => state'.debug_attempts = state.debug_attempts + 1
         ]_vars

\* the second repair was started and aborted in the collaborator
C20_Witness ==
    /\ pc = "aborted" /\ raised = "LLMError"
    /\ debug_calls = 2 /\ state.debug_attempts = 2

\* the outcome of the script depends on what earlier scripts left in the
\* module objects every call shares
ReadsSharedModule(stmts) == Contains(stmts, GetAttrStmt)

\* the (output, fault, artifact-presence) triple of a runner call
Triple(res) == <<res.output, res.error # <<>>, res.figure_json # <<>>>>

\* C18 as stated: whatever calls came before, running the same script again
\* returns the same triple.
C18_Original ==
    [][ (calls > 0 /\ script' = script /\ last.raised = "" /\ last'.raised = "")
            => Triple(last') = Triple(last) ]_vars

\* C18 amended: whatever calls came before, the triple returned for a script
\* that does not read the state of the shared module objects is the one its
\* text alone determines, so running it again returns the same triple, and
\* fig is captured only when this script itself bound it.
C18_NoMemoryUnlessSharedModule ==
    (calls > 0 /\ last.raised = "" /\ ~ReadsSharedModule(script)) =>
        /\ last.output = WritesBefore(script)
        /\ last.error # <<>> <=> Faults(script)
        /\ last.figure_json # <<>> <=> (~Faults(script) /\ FigLeft(script) = "fig=Figure")

\* an earlier script bound fig and set the module attribute; the script run
\* after it binds no fig and gets no artifact
C18_Witness ==
    /\ calls > 0 /\ last.raised = ""
    /\ ns_fig = "fig=Figure" /\ pd_seen
    /\ script = <<"print(a)">>
    /\ Triple(last) = <<(<<"a", "\n">>), FALSE, FALSE>>

\* C19: when two requests are served at the same time, what a runner call
\* has returned as captured output is exactly what its own script wrote, and
\* whenever no runner call is between its redirection (line 42) and its
\* restore (line 74) sys.stdout is the stream that was installed before them.
C19_NoSharedState ==
    /\ \A t \in Threads :
          conc.thread[t].run > 0 /\ conc.thread[t].at \in {"executor.47", "paused"} =>
              conc.thread[t].st.execution_result =
                  WritesBefore(conc.thread[t].st.generated_code)
    /\ (\A t \in Threads : conc.thread[t].at \notin {"42", "60", "74"})
           => sys_stdout = "sys.__stdout__"

\* C21: a repair that returns hands over to the executor, which runs the
\* repaired script once before any other node runs; the reporter and the
\* debugger are entered only through the conditional edge that follows an
\* execution, so no report follows a repair directly and no two repairs
\* follow each other.
C21_RepairThenExecution ==
    [][ /\ pc = "debugger" =>
              /\ pc' \in {"executor", "aborted"}
              /\ exec_runs' = exec_runs
              /\ pc' = "aborted" => raised' = "LLMError"
        /\ (pc = "executor" /\ debug_calls > 0) =>
              /\ exec_runs' = exec_runs + 1
              /\ debug_calls' = debug_calls
              /\ state'.generated_code = state.generated_code
              /\ pc' \in {"route", "aborted"}
        /\ pc' = "reporter" => pc = "route"
        /\ pc' = "debugger" => pc = "route"
        /\ pc' = "route" => pc = "executor"
      ]_vars

\* the second repair has been followed by the third execution
C21_Witness == pc = "route" /\ debug_calls = 2 /\ exec_runs = 3

\* the fields of the state that the nodes derive
DerivedEmpty(st) ==
    /\ st.schema_info = "" /\ st.column_types = "{}" /\ st.sample_rows = ""
    /\ st.analysis_plan = <<>> /\ st.generated_code = <<>>
    /\ st.execution_result = <<>> /\ st.execution_error = <<>>
    /\ st.figure_json = "" /\ st.final_report = <<>>

\* C22: the request starts with every derived field empty and
\* debug_attempts 0; analyze_schema, create_analysis_plan and generate_code
\* run in that order, each at most once, each exactly once by the time of the
\* first execution, and never after it.
C22_FrontStagesOnce ==
    /\ DerivedEmpty(state) /\ state.debug_attempts = 0 /\ pc = "schema_analyzer"
    /\ [](/\ stage_runs.schema_analyzer <= 1 /\ stage_runs.planner <= 1
          /\ stage_runs.coder <= 1
          /\ stage_runs.coder <= stage_runs.planner
          /\ stage_runs.planner <= stage_runs.schema_analyzer
          /\ (pc = "executor" \/ exec_runs > 0) =>
                stage_runs = [schema_analyzer |-> 1, planner |-> 1, coder |-> 1])
    /\ [][ /\ pc' = "planner" => pc = "schema_analyzer"
           /\ pc' = "coder" => pc = "planner"
           /\ exec_runs > 0 => stage_runs' = stage_runs
           /\ (exec_runs = 0 /\ pc' = "executor") => pc = "coder"
         ]_vars

\* after three repairs the three front nodes have still run once each
C22_Witness ==
    /\ pc = "END" /\ debug_calls = 3 /\ exec_runs = 4
    /\ stage_runs = [schema_analyzer |-> 1, planner |-> 1, coder |-> 1]

\* what the executor node stores for a script: error, result and figure are
\* those of running this script and nothing else
StoredFor(code, st) ==
    /\ st.execution_error # <<>> <=> (code = <<>> \/ Faults(code))
    /\ st.execution_result = (IF code = <<>> THEN <<>> ELSE WritesBefore(code))
    /\ st.figure_json # "" <=>
          (code # <<>> /\ ~Faults(code) /\ FigLeft(code) = "fig=Figure")

\* C23: a repair that returns leaves execution_error empty, and the execution
\* that follows it leaves execution_error, execution_result and figure_json
\* as running the repaired script determines them: the error is non-empty
\* exactly when that script faulted or is empty, and nothing of an earlier
\* attempt is left.
C23_RerunOverwrites ==
    [][ /\ (pc = "debugger" /\ pc' = "executor") => state'.execution_error = <<>>
        /\ (pc = "executor" /\ debug_calls > 0) => StoredFor(state.generated_code, state')
      ]_vars

\* C24: when the collaborator call of a repair fails, the call is made once,
\* the exception leaves the pipeline, no report is ever written, and the state
\* left behind has debug_attempts already advanced by one while generated_code
\* and execution_error are those the repair found.
C24_RepairFailureIsFatal ==
    /\ [][ (pc = "debugger" /\ pc' # "executor") =>
              /\ pc' = "aborted" /\ raised' = "LLMError"
              /\ llm_calls' = llm_calls + 1
              /\ state'.debug_attempts = state.debug_attempts + 1
              /\ state'.generated_code = state.generated_code
              /\ state'.execution_error = state.execution_error
              /\ state'.final_report = <<>>
         ]_vars
    /\ [][ pc = "aborted" => (pc' = "aborted" /\ state' = state /\ raised' = raised) ]_vars
    /\ [](pc = "aborted" => (raised # "" /\ state.final_report = <<>>))

\* the first repair failed in the collaborator after a faulting run
C24_Witness ==
    /\ pc = "aborted" /\ raised = "LLMError"
    /\ debug_calls = 1 /\ state.debug_attempts = 1
    /\ state.execution_error # <<>> /\ state.final_report = <<>>

\* the step leaves these fields of the state as they were
Keeps(fields) == \A f \in fields : state'[f] = state[f]

\* the step changes no field of the state outside these
ChangesOnly(fields) == Keeps(DOMAIN state \ fields)

\* C25: the executor node changes only execution_result, execution_error and
\* figure_json; the debugger only generated_code, execution_error and
\* debug_attempts; the reporter only final_report; no node changes file_path
\* or user_question; schema_info, column_types and sample_rows change only in
\* analyze_schema and analysis_plan only in create_analysis_plan.
C25_StagesOwnTheirFields ==
    [][ /\ pc = "executor" =>
              ChangesOnly({"execution_result", "execution_error", "figure_json"})
        /\ pc = "debugger" =>
              ChangesOnly({"generated_code", "execution_error", "debug_attempts"})
        /\ pc = "reporter" => ChangesOnly({"final_report"})
        /\ Keeps({"file_path", "user_question"})
        /\ pc # "schema_analyzer" => Keeps({"schema_info", "column_types", "sample_rows"})
        /\ pc # "planner" => Keeps({"analysis_plan"})
      ]_vars

\* a run with a repair ended: what the front nodes wrote is still there
C25_Witness ==
    /\ pc = "END" /\ debug_calls >= 1 /\ state.final_report # <<>>
    /\ state.file_path = FilePath /\ state.user_question = Question
    /\ state.schema_info = SchemaInfo /\ state.analysis_plan \in PlanReplies

\* the first n characters of a text, all of it when it has no more than n
FirstChars(text, n) == [i \in 1..(IF Len(text) < n THEN Len(text) ELSE n) |-> text[i]]

\* the fault excerpt of a failure report: what stands between the fixed text
\* before it and the fixed text, the plan and the closing line after it
Excerpt(report, plan) == SubSeq(report, 6, Len(report) - Len(plan) - 2)

\* C26: in the narrative branch the analysis result handed to the collaborator
\* is the first min(length, 8000) characters of execution_result, which stays
\* as it was in the state; the failure report quotes the first
\* min(length, 500) characters of execution_error.
C26_TruncatedExcerpts ==
    [][ pc = "reporter" =>
           IF state.execution_error # <<>> /\ state.execution_result = <<>>
           THEN /\ pc' = "END"
                /\ Excerpt(state'.final_report, state.analysis_plan)
                      = FirstChars(state.execution_error, 500)
                /\ report_prompt' = <<>>
           ELSE /\ report_prompt' = <<"REPORTER_PROMPT", state.user_question>>
                                       \o FirstChars(state.execution_result, 8000)
                /\ state'.execution_result = state.execution_result
      ]_vars

\* an output one character over the limit went to the collaborator cut to the
\* limit
C26_Witness ==
    /\ pc = "END" /\ Len(state.execution_result) = ResultLimit + 1
    /\ Len(report_prompt) = ResultLimit + 2
    /\ report_prompt[Len(report_prompt)] = ToString(ResultLimit)

\* a response as the claim reads it: the text without surrounding whitespace,
\* and when that text is a fenced block, its body without the fence lines,
\* trimmed again
Unfenced(reply) ==
    LET t == Strip(reply) IN
    IF Len(t) >= 6 /\ StartsWith(t, Fence) /\ EndsWith(t, Fence)
    THEN LET opened == IF StartsWith(t, FencePython) THEN Drop(t, 9) ELSE Drop(t, 3)
         IN  Strip(SubSeq(opened, 1, Len(opened) - 3))
    ELSE t

\* C27: the script stored from a code or repair response is the response
\* without its fence and surrounding whitespace, and holds no fence marker,
\* whether or not whitespace precedes the opening fence.
C27_FenceRemoved ==
    pc = "executor" =>
        /\ state.generated_code = Unfenced(llm_reply)
        /\ ~Contains(state.generated_code, "bt")

\* the patterns of the list that occur in the script, in the order of the list
MatchedPatterns(code) ==
    SelectSeq(<<"import os", "import subprocess", "import sys", "open(", "__import__",
                "eval(", "exec(">>,
              LAMBDA p : \E i \in 1..Len(code) : code[i] = p)

\* one warning line for each of the patterns
RECURSIVE WarningLines(_)
WarningLines(patterns) ==
    IF patterns = <<>> THEN <<>>
    ELSE <<"Warning: Code contains potentially dangerous pattern: ", Head(patterns), "\n">>
            \o WarningLines(Tail(patterns))

\* C28: a call of execute_code_safely leaves what a call of execute_code on
\* the same script leaves (the same triple, the same exception if one
\* escapes, the same stream installed) and writes to the stream installed at
\* entry one warning for each pattern of the list that occurs in the script,
\* and nothing else.
C28_WarnsOnly ==
    [][ call_execute_code_safely =>
           LET plain == execute_code(script, sys_stdout) IN
           /\ last'.output = plain.output
           /\ last'.error = plain.error
           /\ last'.figure_json = plain.figure_json
           /\ last'.raised = plain.raised
           /\ sys_stdout' = plain.sys_stdout
           /\ last'.real = WarningLines(MatchedPatterns(script))
      ]_vars

\* a script with two of the patterns ran, printed, and drew two warnings
C28_Witness ==
    /\ calls > 0 /\ script = <<"import os", "import sys", "print(a)">>
    /\ last.output = <<"a", "\n">> /\ last.error = <<>>
    /\ Len(last.real) = 6

\* C29: the reporter is entered only with an empty execution_error or with
\* debug_attempts = 3; so a run that ended with a non-empty execution_error
\* has debug_attempts = 3, and a failure report always names 3 attempts.
C29_ReportAfterCleanRunOrCeiling ==
    /\ [][ pc' = "reporter" =>
              (state'.execution_error = <<>> \/ state'.debug_attempts = 3) ]_vars
    /\ []((pc \in {"reporter", "END"} /\ state.execution_error # <<>>) =>
              state.debug_attempts = 3)
    /\ []((pc = "END" /\ state.final_report \notin ReportReplies) =>
              /\ state.final_report[4] = "3"
              /\ state.execution_error # <<>>)

\* the reporter was entered after the third repair with the error still there
C29_Witness ==
    /\ pc = "reporter" /\ state.execution_error # <<>>
    /\ state.debug_attempts = 3 /\ debug_calls = 3

\* C30: a request runs the executor at most 4 times; when the reporter is
\* entered the executor has run debug_attempts + 1 times; the collaborator is
\* called at most 6 times, once in planning, once in code generation, once in
\* each repair and at most once in reporting.
C30_CostBounded ==
    /\ [](/\ exec_runs <= 4
          /\ llm_calls <= 6
          /\ llm_calls <= stage_runs.planner + stage_runs.coder + debug_calls + 1
          /\ pc \in {"reporter", "END"} => exec_runs = state.debug_attempts + 1
          /\ pc = "reporter" => llm_calls = 2 + debug_calls)
    /\ [][ /\ pc = "debugger" => llm_calls' = llm_calls + 1
           /\ pc \in {"planner", "coder"} => llm_calls' = llm_calls + 1
           /\ pc = "reporter" => llm_calls' \in {llm_calls, llm_calls + 1}
           /\ pc \in {"schema_analyzer", "executor", "route"} => llm_calls' = llm_calls
         ]_vars

\* the costliest request: four executions and six collaborator calls
C30_Witness == pc = "END" /\ exec_runs = 4 /\ llm_calls = 6 /\ debug_calls = 3

\* C31: once the executor has run, a non-empty execution_error goes with an
\* empty figure_json; the executor's early return for an empty script leaves
\* figure_json as it was, and it was empty.
C31_NoFigureWithFault ==
    /\ []((exec_runs > 0 /\ state.execution_error # <<>>) => state.figure_json = "")
    /\ [][ (pc = "executor" /\ state.generated_code = <<>>) =>
              (state'.figure_json = state.figure_json /\ state'.figure_json = "") ]_vars

\* a repair returned an empty script: the executor stored the fault and left
\* the figure field alone
C31_Witness ==
    /\ pc = "route" /\ debug_calls = 1 /\ exec_runs = 2
    /\ state.generated_code = <<>>
    /\ state.execution_error = <<"No code to execute">>
    /\ state.figure_json = ""

\* C32 as stated: applied to its own result, clean_code_output changes
\* nothing, whatever the input.
C32_Original ==
    [][ pc = "cleaned" => state'.generated_code = state.generated_code ]_vars

\* the text has a fence marker at its beginning or at its end
FenceAtAnEnd(text) == StartsWith(text, Fence) \/ EndsWith(text, Fence)

\* C32 amended: the copy in coder.py and the copy in debugger.py return the
\* same text for every input; applied to its own result the function changes
\* nothing when that result has no fence marker at its beginning or end, and
\* strips a further fence when it has one.
C32_CopiesAgreeIdempotentOffFences ==
    /\ [](pc = "cleaned" =>
            /\ state.generated_code = clean_code_output(llm_reply)
            /\ state.generated_code = clean_code_output_debugger(llm_reply))
    /\ [][ pc = "cleaned" =>
              (state'.generated_code = state.generated_code
                  <=> ~FenceAtAnEnd(state.generated_code)) ]_vars

\* a fenced response was cleaned to its body, and cleaning the body again
\* left it as it was
C32_Witness ==
    /\ pc = "cleaned again"
    /\ llm_reply = FencePython \o <<"\n", "print(a)">> \o Fence
    /\ state.generated_code = <<"print(a)">>
====
